---- MODULE Spec2Model ----
(***************************************************************************)
(* A model of the stock-analysis pipeline: the prompt catalog loader       *)
(* (models/prompt_loader.py), the AI client (models/ai_client.py), the     *)
(* SQLite run store (models/database.py) and run_analysis (app.py).        *)
(*                                                                         *)
(* Representation of Python values.  A value is a record with one field    *)
(* that names its type:                                                    *)
(*   [none |-> TRUE]   None            [str |-> s]    a string             *)
(*   [num |-> n]       a number, in hundredths (8500 is 85, 4250 is 42.5)  *)
(*   [dict |-> f]      a mapping       [list |-> q]   a list               *)
(* A text is [plain |-> s] (text that is not JSON) or [json |-> v] (the    *)
(* JSON serialisation of the value v).  File names are compared character  *)
(* by character, by character code, as Python compares strings.            *)
(***************************************************************************)
EXTENDS Integers, Sequences, FiniteSets, TLC

\* The largest number of files in the prompts directory.
MaxFiles == 2
\* The longest list of ratings handed to the aggregator on its own.
MaxRatings == 4

--------------------------------------------------------------------------
(* Python values *)

PyNone == [none |-> TRUE]
PyStr(s) == [str |-> s]
PyNum(n) == [num |-> n]
PyDict(f) == [dict |-> f]
PyList(q) == [list |-> q]

IsNone(v) == "none" \in DOMAIN v
IsStr(v) == "str" \in DOMAIN v
IsNum(v) == "num" \in DOMAIN v
IsDict(v) == "dict" \in DOMAIN v
IsList(v) == "list" \in DOMAIN v

\* bool(v): None, 0, "", {} and [] are false.
Truthy(v) ==
    CASE IsNone(v) -> FALSE
      [] IsStr(v) -> v.str /= ""
      [] IsNum(v) -> v.num /= 0
      [] IsDict(v) -> DOMAIN v.dict /= {}
      [] IsList(v) -> Len(v.list) > 0

\* d.get(key, default) of a mapping d.
DictGet(d, key, default) ==
    IF key \in DOMAIN d.dict THEN d.dict[key] ELSE default

\* The strings Python's int() and float() accept, with their value in
\* hundredths.
NumericStrings == [s \in {"85", "42.5"} |-> IF s = "85" THEN 8500 ELSE 4250]

\* The strings int() accepts: a float literal such as "42.5" is refused.
IntegerStrings == {"85"}

Ok(v) == [ok |-> TRUE, val |-> v, exc |-> ""]
Raise(e) == [ok |-> FALSE, val |-> PyNone, exc |-> e]

\* int(v): a number is truncated, a string is parsed, anything else is a
\* TypeError.  The result is a plain integer.
PyInt(v) ==
    CASE IsNum(v) -> [ok |-> TRUE, val |-> v.num \div 100, exc |-> ""]
      [] IsStr(v) -> IF v.str \in IntegerStrings
                     THEN [ok |-> TRUE, val |-> NumericStrings[v.str] \div 100, exc |-> ""]
                     ELSE [ok |-> FALSE, val |-> 0, exc |-> "ValueError"]
      [] OTHER -> [ok |-> FALSE, val |-> 0, exc |-> "TypeError"]

\* float(v), in hundredths.
PyFloat(v) ==
    CASE IsNum(v) -> [ok |-> TRUE, val |-> v.num, exc |-> ""]
      [] IsStr(v) -> IF v.str \in DOMAIN NumericStrings
                     THEN [ok |-> TRUE, val |-> NumericStrings[v.str], exc |-> ""]
                     ELSE [ok |-> FALSE, val |-> 0, exc |-> "ValueError"]
      [] OTHER -> [ok |-> FALSE, val |-> 0, exc |-> "TypeError"]

\* s.upper() for the strings a rating takes in this model.
Upper(s) ==
    CASE s \in {"buy", "Buy", "BUY"} -> "BUY"
      [] s \in {"hold", "HOLD"} -> "HOLD"
      [] s \in {"sell", "Sell", "SELL"} -> "SELL"
      [] s = "None" -> "NONE"
      [] OTHER -> s

\* str(v).upper() of a rating: a string or None (str(None) is "None").
StrUpper(v) ==
    CASE IsStr(v) -> Upper(v.str)
      [] IsNone(v) -> Upper("None")

--------------------------------------------------------------------------
(* File names and their order *)

YamlNames == {"a.yml", "b.yml", "c.yml", "a.yaml", "b.yaml"}
TemplateFileName == "t.txt"
MissingFileName == "missing.txt"

\* The characters of a file name.
Chars(name) ==
    CASE name = "a.yml" -> <<"a", ".", "y", "m", "l">>
      [] name = "b.yml" -> <<"b", ".", "y", "m", "l">>
      [] name = "c.yml" -> <<"c", ".", "y", "m", "l">>
      [] name = "a.yaml" -> <<"a", ".", "y", "a", "m", "l">>
      [] name = "b.yaml" -> <<"b", ".", "y", "a", "m", "l">>
      [] name = "t.txt" -> <<"t", ".", "t", "x", "t">>

Ord(c) ==
    CASE c = "." -> 46
      [] c = "a" -> 97
      [] c = "b" -> 98
      [] c = "c" -> 99
      [] c = "l" -> 108
      [] c = "m" -> 109
      [] c = "t" -> 116
      [] c = "x" -> 120
      [] c = "y" -> 121

\* s < t for two strings given by their characters: at the first position
\* where they differ, s has the smaller character, or s ends there and t
\* does not.
StrLess(s, t) ==
    \E k \in 1..(Len(s) + 1) :
        /\ k <= Len(t)
        /\ \A j \in 1..(k - 1) : s[j] = t[j]
        /\ \/ k = Len(s) + 1
           \/ k <= Len(s) /\ Ord(s[k]) < Ord(t[k])

NameLess(f, g) == StrLess(Chars(f), Chars(g))

\* sorted(S) of a set of file names.
RECURSIVE sorted(_)
sorted(S) ==
    IF S = {} THEN <<>>
    ELSE LET m == CHOOSE x \in S : \A y \in S \ {x} : NameLess(x, y)
         IN  <<m>> \o sorted(S \ {m})

EndsWith(s, suffix) ==
    /\ Len(s) >= Len(suffix)
    /\ SubSeq(s, Len(s) - Len(suffix) + 1, Len(s)) = suffix

\* directory.glob("*" + suffix): the files of the directory whose name ends
\* with the suffix.
glob(directory, suffix) ==
    {f \in DOMAIN directory.files : EndsWith(Chars(f), suffix)}

YmlSuffix == <<".", "y", "m", "l">>
YamlSuffix == <<".", "y", "a", "m", "l">>

--------------------------------------------------------------------------
(* models/prompt_loader.py *)

\* A directory is [exists |-> BOOLEAN, files |-> [name -> content]].  The
\* content of a YAML file is what yaml.safe_load makes of it: a value, or
\* [invalid |-> TRUE] when the file is not YAML at all.  The content of any
\* other file is [text |-> s].

RequiredKeys == <<"prompt_id", "name", "version", "template">>

\* Prompt.from_dict(data): the first missing required key is a ValueError;
\* version goes through int().
from_dict(data) ==
    IF \E i \in 1..Len(RequiredKeys) : RequiredKeys[i] \notin DOMAIN data.dict
    THEN Raise("ValueError")
    ELSE LET version == PyInt(data.dict["version"])
         IN  IF ~version.ok THEN Raise(version.exc)
             ELSE Ok([prompt_id |-> data.dict["prompt_id"].str,
                      name |-> data.dict["name"].str,
                      version |-> version.val,
                      template |-> data.dict["template"].str,
                      schema |-> DictGet(data, "schema", PyNone)])

\* data with data["template"] = text.
WithTemplate(data, text) ==
    PyDict([k \in DOMAIN data.dict \cup {"template"} |->
               IF k = "template" THEN PyStr(text) ELSE data.dict[k]])

\* The body of the loop of load_prompts for one file: the Prompt, or the
\* exception the except clause catches.
LoadFile(directory, file) ==
    LET data == directory.files[file].yaml
    IN  IF "invalid" \in DOMAIN data THEN Raise("YAMLError")
        ELSE IF ~IsDict(data) THEN Raise("ValueError")
        ELSE LET template_file == DictGet(data, "template_file", PyNone)
             IN  IF Truthy(template_file)
                 THEN IF template_file.str \notin DOMAIN directory.files
                      THEN Raise("FileNotFoundError")
                      ELSE from_dict(WithTemplate(data,
                               directory.files[template_file.str].text))
                 ELSE from_dict(data)

\* The files load_prompts visits, in the order it visits them.
CandidateFiles(directory) ==
    sorted(glob(directory, YmlSuffix)) \o sorted(glob(directory, YamlSuffix))

\* LoadedFiles with the try around the loop: the first file that fails ends
\* the loading.
RECURSIVE LoadedUntilFailure(_, _)
LoadedUntilFailure(directory, files) ==
    IF files = <<>> \/ ~LoadFile(directory, files[1]).ok THEN <<>>
    ELSE <<files[1]>> \o LoadedUntilFailure(directory, Tail(files))

LoadedFilesUntilFailure(directory) ==
    IF ~directory.exists THEN <<>>
    ELSE LoadedUntilFailure(directory, CandidateFiles(directory))

\* The visited files that load, in the order visited.
LoadedFiles(directory) ==
    IF ~directory.exists THEN <<>>
    ELSE SelectSeq(CandidateFiles(directory),
                   LAMBDA f : LoadFile(directory, f).ok)

load_prompts(directory) ==
    LET files == LoadedFiles(directory)
    IN  [i \in 1..Len(files) |-> LoadFile(directory, files[i]).val]

--------------------------------------------------------------------------
(* models/ai_client.py *)

\* The Jinja2 templates of this model, each with the expression between its
\* braces as the path of names Jinja2 resolves ("{{ a.b }}" is <<"a", "b">>);
\* a template without a placeholder has the empty path.
TemplateExpr(template_str) ==
    CASE template_str = "Rate the stock." -> <<>>
      [] template_str = "{{ context }}" -> <<"context">>
      [] template_str = "{{ context.ticker }}" -> <<"context", "ticker">>
      [] template_str = "{{ context.context.ticker }}" ->
             <<"context", "context", "ticker">>
      [] template_str = "{{ context.ticker.symbol }}" ->
             <<"context", "ticker", "symbol">>

Undefined == [undefined |-> TRUE]
IsUndefined(v) == "undefined" \in DOMAIN v

\* Jinja2's lookup of one name in a value: a key of a mapping, else
\* Undefined; a lookup in Undefined raises UndefinedError.
GetAttr(r, name) ==
    IF ~r.ok THEN r
    ELSE IF IsUndefined(r.val) THEN Raise("UndefinedError")
    ELSE IF IsDict(r.val) /\ name \in DOMAIN r.val.dict
         THEN Ok(r.val.dict[name])
    ELSE Ok(Undefined)

\* The value of a path of names, the first one looked up among the
\* variables the template is rendered with.
RECURSIVE Resolve(_, _)
Resolve(variables, path) ==
    IF Len(path) = 1
    THEN IF path[1] \in DOMAIN variables THEN Ok(variables[path[1]])
         ELSE Ok(Undefined)
    ELSE GetAttr(Resolve(variables, SubSeq(path, 1, Len(path) - 1)),
                 path[Len(path)])

\* repr(v), as the sequence of the pieces of the text.
RECURSIVE Repr(_)
RECURSIVE ReprItems(_, _)
ReprItems(d, keys) ==
    IF keys = {} THEN <<>>
    ELSE LET k == CHOOSE x \in keys : TRUE
         IN  <<"'", k, "': ">> \o Repr(d[k])
             \o (IF keys = {k} THEN <<>> ELSE <<", ">>)
             \o ReprItems(d, keys \ {k})
Repr(v) ==
    CASE IsStr(v) -> <<"'", v.str, "'">>
      [] IsNone(v) -> <<"None">>
      [] IsDict(v) -> <<"{">> \o ReprItems(v.dict, DOMAIN v.dict) \o <<"}">>

\* What "{{ expr }}" prints for a value: a string as it is, Undefined as the
\* empty text, a mapping as its repr.
Printed(v) ==
    CASE IsUndefined(v) -> <<>>
      [] IsStr(v) -> <<v.str>>
      [] OTHER -> Repr(v)

\* AIClient._render_template: Template(template_str).render(context=context).
\* The rendered text is the sequence of its pieces.
render_template(template_str, context) ==
    LET path == TemplateExpr(template_str)
    IN  IF path = <<>> THEN Ok(<<template_str>>)
        ELSE LET r == Resolve([context |-> context], path)
             IN  IF r.ok THEN Ok(Printed(r.val)) ELSE r

\* The replies of the backend to one call of _call_openai: the call raises,
\* or returns a text (stripped).  NotCalled stands for no call at all.
NotCalled == [called |-> FALSE]
CallRaises == [called |-> TRUE, raises |-> TRUE]
Returns(text) == [called |-> TRUE, raises |-> FALSE, text |-> text]

EmptyText == [plain |-> ""]
ProseText == [plain |-> "I would buy."]
EmptyObjectText == [json |-> PyDict(<<>>)]
ArrayText == [json |-> PyList(<<PyNum(100)>>)]
\* {"score": 85, "rating": "buy", "target_buy_price": 42.5, "rationale": "x"}
GoodObjectText ==
    [json |-> PyDict([score |-> PyNum(8500), rating |-> PyStr("buy"),
                      target_buy_price |-> PyNum(4250),
                      rationale |-> PyStr("x")])]
\* {"rating": "Sell"}
SparseObjectText == [json |-> PyDict([rating |-> PyStr("Sell")])]
\* {"score": "high", "rating": "BUY", "target_buy_price": 42.5}
WordScoreText ==
    [json |-> PyDict([score |-> PyStr("high"), rating |-> PyStr("BUY"),
                      target_buy_price |-> PyNum(4250)])]
\* {"score": 85, "rating": "hold", "target_buy_price": "cheap"}
WordPriceText ==
    [json |-> PyDict([score |-> PyNum(8500), rating |-> PyStr("hold"),
                      target_buy_price |-> PyStr("cheap")])]

BackendTexts ==
    {EmptyText, ProseText, EmptyObjectText, ArrayText, GoodObjectText,
     SparseObjectText, WordScoreText, WordPriceText}

\* A backend is the set of things a call of it can do.  Any backend can
\* raise or return any of the texts; a healthy one returns objects of the
\* expected shape.
AnyBackend == {CallRaises} \cup {Returns(t) : t \in BackendTexts}
HealthyBackend == {Returns(GoodObjectText), Returns(SparseObjectText)}

\* What happens when generate runs: no call when no key is configured, else
\* one of the things the backend can do.
BackendReplies(llm_available, backend) ==
    IF llm_available THEN backend ELSE {NotCalled}

\* bool(raw_text) of None or a text.
TextTruthy(raw_text) ==
    IF IsNone(raw_text) THEN FALSE
    ELSE IF "plain" \in DOMAIN raw_text THEN raw_text.plain /= ""
    ELSE TRUE

\* json.loads(raw_text): the value of a JSON text, JSONDecodeError otherwise.
json_loads(raw_text) ==
    IF "json" \in DOMAIN raw_text THEN Ok(raw_text.json)
    ELSE Raise("JSONDecodeError")

json_dumps(v) == [json |-> v]

StubScoreLow == 1
StubScoreHigh == 100
BuyThreshold == 70
HoldThreshold == 40
\* 10.0 and 200.0, in hundredths.
StubPriceLow == 1000
StubPriceHigh == 20000

\* The values of random.randint(lo, hi) the model draws: both ends and the
\* values around the rating thresholds.
randint(lo, hi) ==
    {lo, hi} \cup {x \in {HoldThreshold - 1, HoldThreshold,
                          BuyThreshold - 1, BuyThreshold} : lo < x /\ x < hi}

\* The values of round(random.uniform(lo, hi), 2) the model draws, in
\* hundredths: both ends.
uniform_round2(lo, hi) == {lo, hi}

\* StubRating with strict thresholds.
StubRatingStrict(score) ==
    IF score > BuyThreshold THEN "BUY"
    ELSE IF score > HoldThreshold THEN "HOLD"
    ELSE "SELL"

StubRating(score) ==
    IF score >= BuyThreshold THEN "BUY"
    ELSE IF score >= HoldThreshold THEN "HOLD"
    ELSE "SELL"

StubRationale == "This is a placeholder response."

\* The stub of generate for the drawn score and target price.
Stub(score, target_price) ==
    PyDict([score |-> PyNum(score * 100),
            rating |-> PyStr(StubRating(score)),
            target_buy_price |-> PyNum(target_price),
            rationale |-> PyStr(StubRationale)])

\* Lines 97-115 of generate: the text received and what json.loads makes of
\* it, {} when there is no text or it is not JSON.
Received(llm_available, reply) ==
    IF llm_available /\ ~reply.raises THEN reply.text ELSE PyNone

Loaded(received) ==
    IF TextTruthy(received)
    THEN LET j == json_loads(received)
         IN  IF j.ok THEN j.val ELSE PyDict(<<>>)
    ELSE PyDict(<<>>)

\* Line 118 of generate: the generator is drawn from only when nothing was
\* parsed.  Otherwise there is no draw, which the low ends stand for.
ScoreDraws(llm_available, reply) ==
    IF ~Truthy(Loaded(Received(llm_available, reply)))
    THEN randint(StubScoreLow, StubScoreHigh) ELSE {StubScoreLow}

PriceDraws(llm_available, reply) ==
    IF ~Truthy(Loaded(Received(llm_available, reply)))
    THEN uniform_round2(StubPriceLow, StubPriceHigh) ELSE {StubPriceLow}

\* jsonschema.validate(instance, schema) for the schemas of this model,
\* {"type": "object"} and the malformed {"type": 12}: a malformed schema is a
\* SchemaError, an instance of the wrong type a ValidationError.
validate(instance, schema) ==
    IF ~IsStr(DictGet(schema, "type", PyStr("object"))) THEN "SchemaError"
    ELSE IF ~IsDict(instance) THEN "ValidationError"
    ELSE "ok"

\* AIClient.generate(prompt, context) when the backend does `reply` and the
\* random generator draws `score` and `target_price`.  The result carries
\* the rendered prompt as well as (parsed, raw_text).
generate(llm_available, prompt, context, reply, score, target_price) ==
    LET rendered == render_template(prompt.template,
                                    PyDict([context |-> context]))
        received == Received(llm_available, reply)
        loaded == Loaded(received)
        stubbed == ~Truthy(loaded)
        parsed == IF stubbed THEN Stub(score, target_price) ELSE loaded
        raw_text == IF stubbed THEN json_dumps(parsed) ELSE received
        checked == IF Truthy(prompt.schema)
                   THEN validate(parsed, prompt.schema) ELSE "ok"
    IN  IF ~rendered.ok
        THEN [ok |-> FALSE, exc |-> rendered.exc, rendered |-> <<>>,
              parsed |-> PyNone, raw_text |-> PyNone]
        ELSE IF checked = "SchemaError"
        THEN [ok |-> FALSE, exc |-> "SchemaError", rendered |-> rendered.val,
              parsed |-> PyNone, raw_text |-> PyNone]
        ELSE [ok |-> TRUE, exc |-> "", rendered |-> rendered.val,
              parsed |-> parsed, raw_text |-> raw_text]

--------------------------------------------------------------------------
(* models/database.py *)

\* The runs table is a function from run_id (the primary key) to the other
\* columns; the prompt_results table is a set of rows, each with its id.
NULL == PyNone
Timestamp == PyStr("utcnow")

RunIds == {"uuid-1", "uuid-2"}

\* str(uuid.uuid4()): an identifier no run has.  Which one is drawn does not
\* matter, the identifiers being interchangeable: the model draws one.
uuid4(runs_table) == {CHOOSE id \in RunIds \ DOMAIN runs_table : TRUE}

\* INSERT INTO runs (run_id, ticker, context_json, started_at).
start_run(runs_table, run_id, ticker, context_json) ==
    [id \in DOMAIN runs_table \cup {run_id} |->
        IF id = run_id
        THEN [ticker |-> ticker, context_json |-> context_json,
              started_at |-> Timestamp, finished_at |-> NULL,
              average_score |-> NULL, final_rating |-> NULL,
              final_target_price |-> NULL]
        ELSE runs_table[id]]

\* The rows of runs an UPDATE ... WHERE run_id = ? changes.
RunsWhere(runs_table, run_id) == {id \in DOMAIN runs_table : id = run_id}

\* UPDATE runs SET finished_at, average_score, final_rating,
\* final_target_price WHERE run_id = ?.
finish_run(runs_table, run_id, average_score, final_rating, final_target_price) ==
    [id \in DOMAIN runs_table |->
        IF id \in RunsWhere(runs_table, run_id)
        THEN [runs_table[id] EXCEPT !.finished_at = Timestamp,
                                    !.average_score = average_score,
                                    !.final_rating = PyStr(final_rating),
                                    !.final_target_price = final_target_price]
        ELSE runs_table[id]]

\* INTEGER PRIMARY KEY AUTOINCREMENT: one more than the largest id.
NextRowId(table) ==
    IF table = {} THEN 1
    ELSE 1 + CHOOSE m \in {row.id : row \in table} :
                 \A row \in table : row.id <= m

\* INSERT INTO prompt_results.
save_prompt_result(table, run_id, prompt_id, prompt_version, prompt_name, score, rating, target_buy_price, rationale, raw_response) ==
    table \cup {[id |-> NextRowId(table), run_id |-> run_id,
                 prompt_id |-> prompt_id, prompt_version |-> prompt_version,
                 prompt_name |-> prompt_name, score |-> score,
                 rating |-> rating, target_buy_price |-> target_buy_price,
                 rationale |-> rationale, raw_response |-> raw_response,
                 created_at |-> Timestamp]}

\* ResultsWhere without the WHERE clause.
ResultsOfAnyRun(table, run_id) == table

\* The rows a SELECT ... WHERE run_id = ? returns.
ResultsWhere(table, run_id) == {row \in table : row.run_id = run_id}

\* ORDER BY id ASC.
RECURSIVE OrderById(_)
OrderById(rows) ==
    IF rows = {} THEN <<>>
    ELSE LET first == CHOOSE row \in rows : \A other \in rows : row.id <= other.id
         IN  <<first>> \o OrderById(rows \ {first})

\* SELECT * FROM prompt_results WHERE run_id = ? ORDER BY id ASC.
get_prompt_results(table, run_id) == OrderById(ResultsWhere(table, run_id))

--------------------------------------------------------------------------
(* app.py *)

load_context(ticker) == PyDict([ticker |-> PyStr(ticker)])

\* Lines 67-70 of run_analysis: the fields of parsed_data, coerced.  A
\* parsed_data that is no mapping has no get: AttributeError.
Coerce(parsed_data) ==
    IF ~IsDict(parsed_data)
    THEN [ok |-> FALSE, exc |-> "AttributeError"]
    ELSE LET score == PyInt(DictGet(parsed_data, "score", PyNum(0)))
             rating == StrUpper(DictGet(parsed_data, "rating", PyStr("")))
             target_price ==
                 PyFloat(DictGet(parsed_data, "target_buy_price", PyNum(0)))
             rationale == DictGet(parsed_data, "rationale", PyStr(""))
         IN  IF ~score.ok THEN [ok |-> FALSE, exc |-> score.exc]
             ELSE IF ~target_price.ok
             THEN [ok |-> FALSE, exc |-> target_price.exc]
             ELSE [ok |-> TRUE, exc |-> "", score |-> score.val,
                   rating |-> rating, target_price |-> target_price.val,
                   rationale |-> rationale]

\* ResultEntry with the display name taken from the identifier.
ResultEntryMisnamed(prompt, score, rating, target_price, rationale) ==
    [prompt_id |-> prompt.prompt_id, prompt_name |-> prompt.prompt_id,
     prompt_version |-> prompt.version, score |-> score, rating |-> rating,
     target_buy_price |-> target_price, rationale |-> rationale]

\* The entry run_analysis appends to result_entries.
ResultEntry(prompt, score, rating, target_price, rationale) ==
    [prompt_id |-> prompt.prompt_id, prompt_name |-> prompt.name,
     prompt_version |-> prompt.version, score |-> score, rating |-> rating,
     target_buy_price |-> target_price, rationale |-> rationale]

RECURSIVE Sum(_)
Sum(q) == IF q = <<>> THEN 0 ELSE q[1] + Sum(Tail(q))

\* sum(q) / len(q), as a fraction.
Mean(q) == [num |-> Sum(q), den |-> Len(q)]

\* Counter(ratings): the distinct ratings with their counts; a Counter keeps
\* its keys in the order of their first occurrence.
Count(ratings, x) == Cardinality({i \in 1..Len(ratings) : ratings[i] = x})
FirstIndex(ratings, x) ==
    CHOOSE i \in 1..Len(ratings) :
        ratings[i] = x /\ \A j \in 1..(i - 1) : ratings[j] /= x

\* Counter.most_common(): the keys by descending count, keys of equal count
\* in the order of their first occurrence (the sort is stable).
RECURSIVE MostCommonOf(_, _)
MostCommonOf(ratings, keys) ==
    IF keys = {} THEN <<>>
    ELSE LET top == CHOOSE x \in keys : \A y \in keys \ {x} :
                        \/ Count(ratings, x) > Count(ratings, y)
                        \/ /\ Count(ratings, x) = Count(ratings, y)
                           /\ FirstIndex(ratings, x) < FirstIndex(ratings, y)
         IN  <<<<top, Count(ratings, top)>>>>
             \o MostCommonOf(ratings, keys \ {top})

most_common(ratings) ==
    MostCommonOf(ratings, {ratings[i] : i \in 1..Len(ratings)})

\* final_rating without the tie rule: always the first of most_common.
final_rating_first(ratings) == most_common(ratings)[1][1]

\* Lines 103-112 of run_analysis.
final_rating(ratings) ==
    LET mc == most_common(ratings)
    IN  IF Len(mc) = 1 THEN mc[1][1]
        ELSE IF Len(mc) >= 2 /\ mc[1][2] = mc[2][2] THEN "HOLD"
        ELSE mc[1][1]

\* AfterLoad without the check for an empty catalog.
AfterLoadUnchecked(prompts) == "start_run"

\* Line 54 of run_analysis: where it goes once the prompts are loaded.
AfterLoad(prompts) == IF prompts = <<>> THEN "failed" ELSE "start_run"

\* AfterSave with a loop that stops one prompt early.
AfterSaveStopsEarly(prompts, done) ==
    IF done + 1 < Len(prompts) THEN "generate" ELSE "finish"

\* The loop of run_analysis: where it goes once `done` of the prompts are
\* saved.
AfterSave(prompts, done) == IF done < Len(prompts) THEN "generate" ELSE "finish"

--------------------------------------------------------------------------
(* The state *)

VARIABLES
    directory,       \* the prompts directory on disk
    llm_available,   \* ai_client.llm_available, fixed when the module loads
    backend,         \* what a call of the language model backend can do
    runs,            \* the runs table
    prompt_results,  \* the prompt_results table
    loc,             \* per request: the position and locals of run_analysis
    probe            \* a direct call of load_prompts or of the aggregation

vars == <<directory, llm_available, backend, runs, prompt_results, loc, probe>>

Requests == {"r1", "r2"}
Tickers == {"AAPL", "MSFT"}

\* What each file of the prompts directory holds in the runs of the
\* pipeline: a template and a schema of its own.
TemplateOf(f) ==
    CASE f = "a.yml" -> "{{ context.ticker }}"
      [] f = "b.yml" -> "{{ context.context.ticker }}"
      [] f = "c.yml" -> "Rate the stock."
      [] f = "a.yaml" -> "{{ context }}"
      [] f = "b.yaml" -> "{{ context.ticker.symbol }}"

PromptIdOf(f) ==
    CASE f = "a.yml" -> "valuation"
      [] f = "b.yml" -> "momentum"
      [] f = "c.yml" -> "quality"
      [] f = "a.yaml" -> "sentiment"
      [] f = "b.yaml" -> "risk"

NameOf(f) ==
    CASE f = "a.yml" -> "Valuation check"
      [] f = "b.yml" -> "Momentum check"
      [] f = "c.yml" -> "Quality check"
      [] f = "a.yaml" -> "Sentiment check"
      [] f = "b.yaml" -> "Risk check"

\* The version, in hundredths as every number of a file is.
VersionOf(f) ==
    CASE f = "a.yml" -> 100
      [] f = "b.yml" -> 200
      [] f = "c.yml" -> 300
      [] f = "a.yaml" -> 400
      [] f = "b.yaml" -> 500

ObjectSchema == PyDict([type |-> PyStr("object")])
MalformedSchema == PyDict([type |-> PyNum(1200)])

SchemaOf(f) ==
    CASE f = "b.yml" -> ObjectSchema
      [] f = "a.yaml" -> MalformedSchema
      [] OTHER -> PyNone

\* The mapping of a well-formed prompt file.
FullMapping(f) ==
    [prompt_id |-> PyStr(PromptIdOf(f)), name |-> PyStr(NameOf(f)),
     version |-> PyNum(VersionOf(f)), template |-> PyStr(TemplateOf(f)),
     template_file |-> PyStr(""), schema |-> SchemaOf(f)]

Restrict(f, keys) == [k \in keys |-> f[k]]

AllKeys == {"prompt_id", "name", "version", "template", "template_file", "schema"}

\* The contents a prompt file is given, each named by a kind: not YAML, a
\* list, a mapping whose version is the word "one", and a mapping that lacks
\* the key `dropped` ("" for none) and names the template file
\* `template_file` ("" for no such key).
Kind(kind, dropped, template_file) ==
    [kind |-> kind, dropped |-> dropped, template_file |-> template_file]

GoodKind == Kind("mapping", "", "")
NoTemplateKind == Kind("mapping", "template", "")

\* Every kind of content the loader is tried on.
AllKinds ==
    {Kind("invalid", "", ""), Kind("list", "", ""), Kind("version", "", "")}
    \cup {Kind("mapping", dropped, tf) :
             dropped \in {""} \cup {RequiredKeys[i] : i \in 1..Len(RequiredKeys)},
             tf \in {"", "-", TemplateFileName, MissingFileName}}

\* The kinds of content in the runs of the pipeline: a well-formed prompt, or
\* a mapping without its template.
RunKinds == {GoodKind, NoTemplateKind}

\* The content of the file f for a kind.  A template_file of "" is no key at
\* all, one of "-" is the key with the empty string.
Content(f, k) ==
    CASE k.kind = "invalid" -> [yaml |-> [invalid |-> TRUE]]
      [] k.kind = "list" -> [yaml |-> PyList(<<>>)]
      [] k.kind = "version" ->
             [yaml |-> PyDict(Restrict([FullMapping(f) EXCEPT !.version = PyStr("one")],
                                       AllKeys \ {"template_file"}))]
      [] k.kind = "mapping" ->
             [yaml |-> PyDict(Restrict(
                 [FullMapping(f) EXCEPT !.template_file =
                     PyStr(IF k.template_file = "-" THEN "" ELSE k.template_file)],
                 AllKeys \ ({k.dropped}
                            \cup IF k.template_file = "" THEN {"template_file"} ELSE {})))]

\* The directory holding the YAML files of S, the file f with the content of
\* kind kinds[f], and the template file.
Directory(S, kinds) ==
    [exists |-> TRUE,
     files |-> [f \in S \cup {TemplateFileName} |->
                   IF f = TemplateFileName THEN [text |-> "{{ context }}"]
                   ELSE Content(f, kinds[f])]]

NoDirectory == [exists |-> FALSE, files |-> <<>>]

FileSets == {S \in SUBSET YamlNames : Cardinality(S) <= MaxFiles}

\* The directories two concurrent requests run on: one or two prompts.
SharedDirectories ==
    {Directory(S, [f \in S |-> GoodKind]) : S \in {{"b.yml"}, {"c.yml", "a.yml"}}}

\* The locals of a request that has not been made.
Idle ==
    [pc |-> "idle", ticker |-> "", context |-> PyNone, prompts |-> <<>>,
     run_id |-> "", reply |-> NotCalled, rendered |-> <<>>,
     raw_text |-> PyNone, score |-> 0, rating |-> "", target_price |-> 0,
     rationale |-> PyNone, result_entries |-> <<>>, scores |-> <<>>,
     ratings |-> <<>>, targets |-> <<>>, summary |-> PyNone,
     error |-> "", calls |-> <<>>]

\* run_analysis(ticker) has just been called.
Called(ticker) == [Idle EXCEPT !.pc = "start", !.ticker = ticker]

NoProbe == [fn |-> "", arg |-> <<>>, returned |-> FALSE, ret |-> <<>>]

\* One request runs on any directory, with or without a backend.
Init ==
    /\ \/ directory = NoDirectory
       \/ \E S \in FileSets : \E kinds \in [S -> RunKinds] :
              directory = Directory(S, kinds)
    /\ llm_available \in BOOLEAN
    /\ backend = AnyBackend
    /\ runs = <<>>
    /\ prompt_results = {}
    /\ \E t \in Tickers : loc = [r \in Requests |->
                                    IF r = "r1" THEN Called(t) ELSE Idle]
    /\ probe = NoProbe

--------------------------------------------------------------------------
(* run_analysis, one action per step between two writes of the run store *)

Running(r) == loc[r].pc \in {"start", "start_run", "generate", "save", "finish"}

\* A store call that fails raises sqlite3.OperationalError out of run_analysis.
StoreOutcomes == {"ok", "OperationalError"}

\* Lines 48-55: build the context, load the prompts, fail on an empty catalog.
LoadPrompts(r) ==
    /\ loc[r].pc = "start"
    /\ LET prompts == load_prompts(directory)
           next == AfterLoad(prompts)
       IN  loc' = [loc EXCEPT ![r].context = load_context(loc[r].ticker),
                              ![r].prompts = prompts,
                              ![r].pc = next,
                              ![r].error = IF next = "failed"
                                           THEN "No prompt definitions found"
                                           ELSE ""]
    /\ UNCHANGED <<directory, llm_available, backend, runs, prompt_results, probe>>

\* Line 58: database.start_run under a fresh uuid4.
StartRun(r) ==
    /\ loc[r].pc = "start_run"
    /\ \E run_id \in uuid4(runs), outcome \in StoreOutcomes :
        LET called == [loc EXCEPT ![r].calls = Append(@, <<"start_run", "">>)]
        IN  IF outcome = "ok"
            THEN /\ runs' = start_run(runs, run_id, loc[r].ticker,
                                      json_dumps(loc[r].context))
                 /\ loc' = [called EXCEPT ![r].run_id = run_id,
                                          ![r].pc = AfterSave(loc[r].prompts, 0)]
            ELSE /\ runs' = runs
                 /\ loc' = [called EXCEPT ![r].pc = "failed",
                                          ![r].error = outcome]
    /\ UNCHANGED <<directory, llm_available, backend, prompt_results, probe>>

\* Lines 66-70: ai_client.generate for the next prompt, then the coercions.
Generate(r) ==
    /\ loc[r].pc = "generate"
    /\ \E reply \in BackendReplies(llm_available, backend) :
       \E score \in ScoreDraws(llm_available, reply),
          target_price \in PriceDraws(llm_available, reply) :
        LET prompt == loc[r].prompts[Len(loc[r].result_entries) + 1]
            g == generate(llm_available, prompt, loc[r].context, reply,
                          score, target_price)
            c == IF g.ok THEN Coerce(g.parsed) ELSE [ok |-> FALSE, exc |-> g.exc]
            called == [loc EXCEPT ![r].calls = Append(@, <<"generate", prompt.prompt_id>>),
                                  ![r].reply = reply,
                                  ![r].rendered = g.rendered]
        IN  IF c.ok
            THEN loc' = [called EXCEPT ![r].raw_text = g.raw_text,
                                       ![r].score = c.score,
                                       ![r].rating = c.rating,
                                       ![r].target_price = c.target_price,
                                       ![r].rationale = c.rationale,
                                       ![r].pc = "save"]
            ELSE loc' = [called EXCEPT ![r].pc = "failed", ![r].error = c.exc]
    /\ UNCHANGED <<directory, llm_available, backend, runs, prompt_results, probe>>

\* Lines 72-98: database.save_prompt_result, then the appends.
SavePromptResult(r) ==
    /\ loc[r].pc = "save"
    /\ \E outcome \in StoreOutcomes :
        LET l == loc[r]
            prompt == l.prompts[Len(l.result_entries) + 1]
            called == [loc EXCEPT ![r].calls =
                          Append(@, <<"save_prompt_result", prompt.prompt_id>>)]
        IN  IF outcome = "ok"
            THEN /\ prompt_results' =
                        save_prompt_result(prompt_results, l.run_id,
                            prompt.prompt_id, prompt.version, prompt.name,
                            l.score, l.rating, l.target_price, l.rationale,
                            l.raw_text)
                 /\ loc' = [called EXCEPT
                        ![r].scores = Append(@, l.score),
                        ![r].ratings = Append(@, l.rating),
                        ![r].targets = Append(@, l.target_price),
                        ![r].result_entries =
                            Append(@, ResultEntry(prompt, l.score, l.rating,
                                                  l.target_price, l.rationale)),
                        ![r].pc = AfterSave(l.prompts, Len(l.result_entries) + 1)]
            ELSE /\ prompt_results' = prompt_results
                 /\ loc' = [called EXCEPT ![r].pc = "failed",
                                          ![r].error = outcome]
    /\ UNCHANGED <<directory, llm_available, backend, runs, probe>>

\* Lines 101-123: the aggregates, database.finish_run, the summary.
FinishRun(r) ==
    /\ loc[r].pc = "finish"
    /\ \E outcome \in StoreOutcomes :
        LET l == loc[r]
            called == [loc EXCEPT ![r].calls = Append(@, <<"finish_run", "">>)]
        IN  IF l.scores = <<>>
            THEN /\ runs' = runs
                 /\ loc' = [loc EXCEPT ![r].pc = "failed",
                                       ![r].error = "ZeroDivisionError"]
            ELSE IF outcome = "ok"
            THEN /\ runs' = finish_run(runs, l.run_id, Mean(l.scores),
                                       final_rating(l.ratings), Mean(l.targets))
                 /\ loc' = [called EXCEPT
                        ![r].summary =
                            [average_score |-> Mean(l.scores),
                             final_rating |-> final_rating(l.ratings),
                             final_target_price |-> Mean(l.targets)],
                        ![r].pc = "done"]
            ELSE /\ runs' = runs
                 /\ loc' = [called EXCEPT ![r].pc = "failed",
                                          ![r].error = outcome]
    /\ UNCHANGED <<directory, llm_available, backend, prompt_results, probe>>

\* The process serving the request dies: its locals are gone.  The model
\* keeps what identifies the run (ticker, catalog, run_id) and the calls it
\* had made.
Crash(r) ==
    /\ Running(r)
    /\ loc' = [loc EXCEPT ![r] = [Idle EXCEPT !.pc = "crashed",
                                               !.ticker = loc[r].ticker,
                                               !.prompts = loc[r].prompts,
                                               !.run_id = loc[r].run_id,
                                               !.calls = loc[r].calls]]
    /\ UNCHANGED <<directory, llm_available, backend, runs, prompt_results, probe>>

Next ==
    \E r \in Requests :
        \/ LoadPrompts(r)
        \/ StartRun(r)
        \/ Generate(r)
        \/ SavePromptResult(r)
        \/ FinishRun(r)
        \/ Crash(r)

Spec == Init /\ [][Next]_vars

\* Two requests run concurrently on a shared directory and database, with a
\* healthy backend.
InitShared ==
    /\ directory \in SharedDirectories
    /\ llm_available = TRUE
    /\ backend = HealthyBackend
    /\ runs = <<>>
    /\ prompt_results = {}
    /\ loc \in {[r \in Requests |-> Called(t[r])] : t \in [Requests -> Tickers]}
    /\ probe = NoProbe

SpecShared == InitShared /\ [][Next]_vars

\* load_prompts is called on any directory.
InitLoad ==
    /\ \/ directory = NoDirectory
       \/ \E S \in FileSets : \E kinds \in [S -> AllKinds] :
              directory = Directory(S, kinds)
    /\ llm_available = FALSE
    /\ backend = AnyBackend
    /\ runs = <<>>
    /\ prompt_results = {}
    /\ loc = [r \in Requests |-> Idle]
    /\ probe = [NoProbe EXCEPT !.fn = "load_prompts"]

CallLoadPrompts ==
    /\ probe.fn = "load_prompts"
    /\ ~probe.returned
    /\ probe' = [probe EXCEPT !.returned = TRUE,
                              !.ret = load_prompts(directory)]
    /\ UNCHANGED <<directory, llm_available, backend, runs, prompt_results, loc>>

SpecLoad == InitLoad /\ [][CallLoadPrompts]_vars

\* The sequences of 1 to n ratings.
Ratings == {"BUY", "HOLD", "SELL", ""}
RatingLists(n) == UNION {[1..k -> Ratings] : k \in 1..n}

\* The aggregation of run_analysis is applied to any list of ratings.
InitRating ==
    /\ directory = NoDirectory
    /\ llm_available = FALSE
    /\ backend = AnyBackend
    /\ runs = <<>>
    /\ prompt_results = {}
    /\ loc = [r \in Requests |-> Idle]
    /\ \E ratings \in RatingLists(MaxRatings) :
           probe = [NoProbe EXCEPT !.fn = "final_rating", !.arg = ratings]

CallFinalRating ==
    /\ probe.fn = "final_rating"
    /\ ~probe.returned
    /\ probe' = [probe EXCEPT !.returned = TRUE,
                              !.ret = final_rating(probe.arg)]
    /\ UNCHANGED <<directory, llm_available, backend, runs, prompt_results, loc>>

SpecRating == InitRating /\ [][CallFinalRating]_vars

--------------------------------------------------------------------------
(* The claims *)

NoPromptsError == "No prompt definitions found"
StoreError == "OperationalError"

\* The catalog of a run: what load_prompts makes of the directory.
Catalog == load_prompts(directory)

\* The rows the store holds for the run of request r.
RowsOf(r) == get_prompt_results(prompt_results, loc[r].run_id)

\* The prompt generate was last called for, at the step after that call.
PendingPrompt(r) == loc[r].prompts[Len(loc[r].result_entries) + 1]

\* C1: only an empty catalog or a run store failure aborts a run: whatever
\* the backend does, a run_analysis that fails fails with one of these two.
\* A malformed schema or template of the catalog is set aside here, so that
\* what is left to fail is the handling of the backend's reply.
C1_OnlyCatalogOrStoreAborts ==
    \A r \in Requests :
        (loc[r].pc = "failed" /\ loc[r].error \notin {"SchemaError", "UndefinedError"})
            => loc[r].error \in {NoPromptsError, StoreError}

\* C2: a run_analysis that returns returns one outcome per prompt of the
\* catalog, in catalog order: the i-th entry carries the prompt_id, name and
\* version of the i-th loaded prompt.
C2_OneOutcomePerPromptInOrder ==
    \A r \in Requests :
        loc[r].pc = "done" =>
            /\ Catalog /= <<>>
            /\ Len(loc[r].result_entries) = Len(Catalog)
            /\ \A i \in 1..Len(Catalog) :
                   /\ loc[r].result_entries[i].prompt_id = Catalog[i].prompt_id
                   /\ loc[r].result_entries[i].prompt_name = Catalog[i].name
                   /\ loc[r].result_entries[i].prompt_version = Catalog[i].version

\* A run over a catalog of two prompts has returned.
C2_Witness ==
    \E r \in Requests :
        /\ loc[r].pc = "done"
        /\ Len(Catalog) >= 2
        /\ loc[r].result_entries[2].prompt_id = Catalog[2].prompt_id

\* The calls of the run store in the calls of a request.
StoreCalls(calls) ==
    SelectSeq(calls, LAMBDA c : c[1] \in {"start_run", "save_prompt_result", "finish_run"})

\* C3: when load_prompts returns no prompts, run_analysis fails with the
\* "no prompt definitions" error and writes nothing: no store call is made
\* and both tables stay as they were (empty).
C3_EmptyCatalogFailsWithoutWrites ==
    \A r \in Requests :
        (Catalog = <<>> /\ loc[r].pc \notin {"idle", "start", "crashed"}) =>
            /\ loc[r].pc = "failed"
            /\ loc[r].error = NoPromptsError
            /\ StoreCalls(loc[r].calls) = <<>>
            /\ runs = <<>>
            /\ prompt_results = {}

\* The directory exists and holds prompt files, none of which loads, and
\* run_analysis has failed.
C3_Witness ==
    \E r \in Requests :
        /\ loc[r].pc = "failed"
        /\ loc[r].error = NoPromptsError
        /\ directory.exists
        /\ CandidateFiles(directory) /= <<>>

\* How often x occurs in the list q.
Occurrences(q, x) == Cardinality({i \in 1..Len(q) : q[i] = x})

\* The values that occur most often in q.
MostFrequent(q) ==
    {x \in {q[i] : i \in 1..Len(q)} :
        \A j \in 1..Len(q) : Occurrences(q, q[j]) <= Occurrences(q, x)}

\* C4: the final rating of a non-empty list of ratings is the single rating
\* when one distinct value occurs, else HOLD when two or more values share
\* the highest count, else the one most frequent rating; [BUY,BUY,HOLD]
\* gives BUY, [BUY,BUY,HOLD,HOLD] gives HOLD, [SELL] gives SELL.
C4_FinalRatingByMajorityTieHold ==
    (probe.fn = "final_rating" /\ probe.returned) =>
        LET q == probe.arg
            top == MostFrequent(q)
        IN  /\ Cardinality({q[i] : i \in 1..Len(q)}) = 1 => probe.ret = q[1]
            /\ (Cardinality({q[i] : i \in 1..Len(q)}) > 1 /\ Cardinality(top) > 1)
                   => probe.ret = "HOLD"
            /\ (Cardinality({q[i] : i \in 1..Len(q)}) > 1 /\ Cardinality(top) = 1)
                   => probe.ret \in top
            /\ q = <<"BUY", "BUY", "HOLD">> => probe.ret = "BUY"
            /\ q = <<"BUY", "BUY", "HOLD", "HOLD">> => probe.ret = "HOLD"
            /\ q = <<"SELL">> => probe.ret = "SELL"

\* The tie of two SELL against two BUY has been aggregated to HOLD.
C4_Witness ==
    /\ probe.fn = "final_rating"
    /\ probe.returned
    /\ probe.arg = <<"SELL", "BUY", "BUY", "SELL">>
    /\ probe.ret = "HOLD"

\* The replies that leave generate without a usable response.
NoUsableReply == {NotCalled, CallRaises, Returns(EmptyText), Returns(ProseText)}

\* A stub: the score in 1..100, the rating the threshold rule gives for it,
\* the target price in [10.0, 200.0] (in hundredths).
IsStub(score, rating, target_price) ==
    /\ score \in 1..100
    /\ rating = (IF score >= 70 THEN "BUY" ELSE IF score >= 40 THEN "HOLD" ELSE "SELL")
    /\ 1000 <= target_price /\ target_price <= 20000

\* C5: when no usable response is available for a prompt (no backend, the
\* call raises, an empty reply, a reply that is not JSON), the outcome that
\* generate produces, and that run_analysis then returns and persists, is a
\* stub.
C5_NoUsableResponseGivesStub ==
    \A r \in Requests :
        loc[r].reply \in NoUsableReply =>
            /\ loc[r].pc = "save" =>
                   IsStub(loc[r].score, loc[r].rating, loc[r].target_price)
            /\ (loc[r].pc \in {"generate", "finish", "done"}
                    /\ loc[r].result_entries /= <<>>) =>
                   LET n == Len(loc[r].result_entries)
                       entry == loc[r].result_entries[n]
                   IN  /\ IsStub(entry.score, entry.rating, entry.target_buy_price)
                       /\ Len(RowsOf(r)) = n
                       /\ IsStub(RowsOf(r)[n].score, RowsOf(r)[n].rating,
                                 RowsOf(r)[n].target_buy_price)

\* A run has returned whose last prompt got a reply that is not JSON, and
\* its outcome is the stub of score 70.
C5_Witness ==
    \E r \in Requests :
        /\ loc[r].pc = "done"
        /\ loc[r].reply = Returns(ProseText)
        /\ loc[r].result_entries[Len(loc[r].result_entries)].score = 70
        /\ RowsOf(r)[Len(RowsOf(r))].rating = "BUY"

\* The data of the prompt file f of the directory.
DataOf(f) == directory.files[f].yaml

\* The file f is in what load_prompts returned: one of the returned prompts
\* carries its prompt_id.
Returned(f) ==
    /\ IsDict(DataOf(f))
    /\ "prompt_id" \in DOMAIN DataOf(f).dict
    /\ \E i \in 1..Len(probe.ret) :
           probe.ret[i].prompt_id = DataOf(f).dict["prompt_id"].str

\* The file f names a template file.
NamesTemplateFile(f) ==
    /\ "template_file" \in DOMAIN DataOf(f).dict
    /\ DataOf(f).dict["template_file"] /= PyStr("")

\* The file f names a template file that is not in the directory.
TemplateFileMissing(f) ==
    /\ NamesTemplateFile(f)
    /\ DataOf(f).dict["template_file"].str \notin DOMAIN directory.files

\* The file f is a well-formed prompt file: a mapping with prompt_id, name,
\* an integer version, and a template of its own or in a template file of
\* the directory.
WellFormed(f) ==
    /\ IsDict(DataOf(f))
    /\ {"prompt_id", "name", "version"} \subseteq DOMAIN DataOf(f).dict
    /\ IsNum(DataOf(f).dict["version"])
    /\ IF NamesTemplateFile(f) THEN ~TemplateFileMissing(f)
       ELSE "template" \in DOMAIN DataOf(f).dict

PromptFiles == {f \in DOMAIN directory.files : f \in YamlNames}

\* C6, as stated: every file that is not a mapping, names a missing template
\* file or lacks one of prompt_id, name, version, template is omitted.
C6_AsStated ==
    (probe.fn = "load_prompts" /\ probe.returned) =>
        \A f \in PromptFiles :
            (\/ ~IsDict(DataOf(f))
             \/ TemplateFileMissing(f)
             \/ \E i \in 1..Len(RequiredKeys) :
                    RequiredKeys[i] \notin DOMAIN DataOf(f).dict)
                => ~Returned(f)

\* C6, amended: load_prompts omits every file that is not a mapping, names
\* a missing template file, lacks one of prompt_id, name, version, or lacks
\* template while naming no template file; it returns every well-formed file
\* once, whatever the other files are; a directory that does not exist gives
\* the empty list.
C6_LoaderIsolatesFailures ==
    (probe.fn = "load_prompts" /\ probe.returned) =>
        /\ ~directory.exists => probe.ret = <<>>
        /\ \A f \in PromptFiles :
               (\/ ~IsDict(DataOf(f))
                \/ TemplateFileMissing(f)
                \/ \E k \in {"prompt_id", "name", "version"} :
                       k \notin DOMAIN DataOf(f).dict
                \/ "template" \notin DOMAIN DataOf(f).dict /\ ~NamesTemplateFile(f))
                   => ~Returned(f)
        /\ \A f \in PromptFiles : WellFormed(f) => Returned(f)
        /\ Len(probe.ret) = Cardinality({f \in PromptFiles : WellFormed(f)})

\* A file without template, first in the directory, has been omitted and the
\* well-formed file after it loaded.
C6_Witness ==
    /\ probe.fn = "load_prompts"
    /\ probe.returned
    /\ PromptFiles = {"a.yml", "b.yml"}
    /\ "template" \notin DOMAIN DataOf("a.yml").dict
    /\ ~NamesTemplateFile("a.yml")
    /\ ~Returned("a.yml")
    /\ Returned("b.yml")
    /\ Len(probe.ret) = 1

\* C7: when generate renders a template, the variable `context` is the
\* analysis context of load_context: "{{ context.ticker }}" renders as the
\* ticker of the run.
C7_ContextVariableIsTheContext ==
    \A r \in Requests :
        (loc[r].pc = "save" /\ PendingPrompt(r).template = "{{ context.ticker }}")
            => loc[r].rendered = <<loc[r].ticker>>

\* The file a returned prompt was loaded from.
FileOf(prompt) ==
    CHOOSE f \in PromptFiles :
        /\ IsDict(DataOf(f))
        /\ "prompt_id" \in DOMAIN DataOf(f).dict
        /\ DataOf(f).dict["prompt_id"].str = prompt.prompt_id

\* C8: load_prompts returns the prompts sorted by file name, whatever the
\* extensions of the files.
C8_SortedByFilename ==
    (probe.fn = "load_prompts" /\ probe.returned) =>
        \A i, j \in 1..Len(probe.ret) :
            i < j => NameLess(FileOf(probe.ret[i]), FileOf(probe.ret[j]))

\* The calls a complete run over the catalog makes, in order.
RECURSIVE PromptCalls(_)
PromptCalls(prompts) ==
    IF prompts = <<>> THEN <<>>
    ELSE <<<<"generate", prompts[1].prompt_id>>,
           <<"save_prompt_result", prompts[1].prompt_id>>>>
         \o PromptCalls(Tail(prompts))

ExpectedCalls(prompts) ==
    <<<<"start_run", "">>>> \o PromptCalls(prompts) \o <<<<"finish_run", "">>>>

IsPrefix(p, q) == Len(p) <= Len(q) /\ SubSeq(q, 1, Len(p)) = p

CountCalls(calls, op) == Len(SelectSeq(calls, LAMBDA c : c[1] = op))

\* C9: the calls of a run are a prefix of start_run, then generate and
\* save_prompt_result for each prompt in catalog order, then finish_run; a
\* prompt is persisted before generate is called for the next.  In every
\* state, a crash included, the rows of the run are those of a prefix of the
\* catalog, in order, and finished_at is set only when every prompt has its
\* row.
C9_StoreCallsInOrderRowsArePrefix ==
    \A r \in Requests :
        loc[r].pc \notin {"idle", "start"} =>
            LET rows == RowsOf(r)
                calls == loc[r].calls
            IN  /\ IsPrefix(calls, ExpectedCalls(Catalog))
                /\ Len(rows) <= Len(Catalog)
                /\ \A i \in 1..Len(rows) :
                       /\ rows[i].prompt_id = Catalog[i].prompt_id
                       /\ rows[i].prompt_name = Catalog[i].name
                       /\ rows[i].prompt_version = Catalog[i].version
                /\ CountCalls(calls, "generate") <= Len(rows) + 1
                /\ Len(rows) <= CountCalls(calls, "save_prompt_result")
                /\ CountCalls(calls, "start_run") <= 1
                /\ CountCalls(calls, "finish_run") <= 1
                /\ \A id \in DOMAIN runs :
                       (id = loc[r].run_id /\ runs[id].finished_at /= NULL)
                           => Len(rows) = Len(Catalog)

\* A run over two prompts has crashed between its two writes: its row in
\* runs has no finished_at and the store holds the first prompt's row only.
C9_Witness ==
    \E r \in Requests :
        /\ loc[r].pc = "crashed"
        /\ Len(Catalog) = 2
        /\ Len(RowsOf(r)) = 1
        /\ CountCalls(loc[r].calls, "generate") = 2
        /\ runs[loc[r].run_id].finished_at = NULL

\* C10: when two runs interleave their writes, get_prompt_results of each
\* run returns that run's own outcomes in its catalog order, the two run_ids
\* differ, and a run's row in runs carries its own ticker and is finished,
\* with its own summary, exactly when that run has called finish_run.
C10_RunsAreIsolated ==
    /\ \A r, q \in Requests :
           (r /= q /\ loc[r].run_id /= "") => loc[r].run_id /= loc[q].run_id
    /\ \A r \in Requests :
           loc[r].run_id /= "" =>
               LET rows == RowsOf(r)
                   run == runs[loc[r].run_id]
               IN  /\ \A i \in 1..Len(rows) :
                          rows[i].prompt_id = Catalog[i].prompt_id
                   /\ run.ticker = loc[r].ticker
                   /\ loc[r].pc /= "crashed" =>
                          /\ Len(rows) = Len(loc[r].result_entries)
                          /\ \A i \in 1..Len(rows) :
                                 /\ rows[i].prompt_id = loc[r].result_entries[i].prompt_id
                                 /\ rows[i].score = loc[r].result_entries[i].score
                                 /\ rows[i].rating = loc[r].result_entries[i].rating
                                 /\ rows[i].target_buy_price =
                                        loc[r].result_entries[i].target_buy_price
                                 /\ rows[i].rationale = loc[r].result_entries[i].rationale
                   /\ (run.finished_at /= NULL) <=> (loc[r].pc = "done")
                   /\ loc[r].pc = "done" =>
                          /\ run.final_rating = PyStr(loc[r].summary.final_rating)
                          /\ run.average_score = loc[r].summary.average_score
                          /\ run.final_target_price = loc[r].summary.final_target_price

\* Two runs over two prompts have both returned, their rows interleaved in
\* the table and their summaries different.
C10_Witness ==
    /\ loc["r1"].pc = "done"
    /\ loc["r2"].pc = "done"
    /\ Len(Catalog) = 2
    /\ {row.id : row \in ResultsWhere(prompt_results, loc["r1"].run_id)} = {2, 3}
    /\ loc["r1"].summary.final_rating /= loc["r2"].summary.final_rating

====
